---- MODULE Spec2Model ----
(***************************************************************************)
(* The teacher views of django_school/classroom (views/teachers.py) as a   *)
(* state machine over the persistent store.  Tables are sets of rows, a    *)
(* row is a record with its primary key in pk.  Every view is one action;  *)
(* get_quiz_in_pdf is also given step by step, for its concurrent runs.    *)
(*                                                                         *)
(* Assumptions about what lies outside views/teachers.py:                  *)
(*  - the database honours transaction.atomic() (rollback on exception);   *)
(*  - a queryset without an ORDER BY on a plain table scan comes back in   *)
(*    primary-key order, a GROUP BY without ORDER BY in any order;         *)
(*  - foreign keys cascade on delete;                                      *)
(*  - the file system is case sensitive, and a quiz name holds a separator *)
(*    only in a leading "./".                                              *)
(***************************************************************************)
EXTENDS Integers, Sequences, FiniteSets, TLC

VARIABLES
    quizzes,          \* Quiz rows          [pk, name, owner, subject]
    questions,        \* Question rows      [pk, quiz, text]
    answers,          \* Answer rows        [pk, question, text, is_correct]
    taken_quizzes,    \* TakenQuiz rows     [pk, student, quiz, score, date]
    student_answers,  \* StudentAnswer rows [pk, student, answer]
    students,         \* Student primary keys
    nextPk,           \* the next primary key of each authored table
    files,            \* the working directory: file name -> content
    calls,            \* the get_quiz_in_pdf requests in flight
    last,             \* the last request served, with its status
    body              \* what the last response carried

vars == <<quizzes, questions, answers, taken_quizzes, student_answers,
          students, nextPk, files, calls, last, body>>

store == <<quizzes, questions, answers, taken_quizzes, student_answers>>

-----------------------------------------------------------------------------
(* Bounds of the model *)

MaxQuizPk == 1
MaxQuestionPk == 1
MaxAnswerPk == 4
MaxNew == 2

(* Program constants *)

MIN_NUM == 2
MAX_NUM == 10

Teachers == {"t1", "t2"}

Algebra == <<"A", "l", "g", "e", "b", "r", "a">>
Geometry == <<"G", "e", "o", "m", "e", "t", "r", "y">>
QuizNames == {Algebra, Geometry}
Subjects == {1, 2}
QuestionTexts == {"2+2=?", "3+3=?"}
AnswerText == "4"

-----------------------------------------------------------------------------
(* Query helpers *)

RECURSIVE OrderByPk(_)
OrderByPk(rows) ==
    IF rows = {} THEN <<>>
    ELSE LET r == CHOOSE x \in rows : \A o \in rows : x.pk <= o.pk
         IN  <<r>> \o OrderByPk(rows \ {r})

\* request.user.quizzes.all()
UserQuizzes(user) == {z \in quizzes : z.owner = user}

\* get_object_or_404(Quiz, pk=pk, owner=request.user): the rows found
OwnedQuiz_AnyOwner(user, pk) == {z \in quizzes : z.pk = pk}

OwnedQuiz(user, pk) == {z \in quizzes : z.pk = pk /\ z.owner = user}

\* get_object_or_404(Question, pk=question_pk, quiz=quiz)
QuestionOf(quiz_pk, question_pk) ==
    {q \in questions : q.pk = question_pk /\ q.quiz = quiz_pk}

QuizQuestions(quiz_pk) == OrderByPk({q \in questions : q.quiz = quiz_pk})

QuestionAnswers(question_pk) ==
    OrderByPk({a \in answers : a.question = question_pk})

-----------------------------------------------------------------------------
(* Requests and responses *)

\* a GET parameter is absent (None) or given with a string, a string being
\* a sequence of characters
Absent == [given |-> FALSE, value |-> <<>>]
Given(value) == [given |-> TRUE, value |-> value]

NoQuery == [q |-> Absent, type |-> Absent, ordering |-> Absent]

NoPost == [text |-> "", nIni |-> 0, nDel |-> 0, nNew |-> 0,
           extra |-> "none", nCorrect |-> 0]

Request(op, method, user, quiz, question, student, post) ==
    [op |-> op, method |-> method, user |-> user, quiz |-> quiz,
     question |-> question, student |-> student, post |-> post,
     failAt |-> 0, query |-> NoQuery]

Served(req, status) ==
    [op |-> req.op, method |-> req.method, user |-> req.user,
     quiz |-> req.quiz, question |-> req.question, student |-> req.student,
     post |-> req.post, failAt |-> req.failAt, query |-> req.query,
     status |-> status]

NoBody == [rows |-> <<>>, labels |-> <<>>, data |-> <<>>,
           answers |-> [t \in {} |-> <<>>], students_answers |-> <<>>,
           doc |-> <<>>]

-----------------------------------------------------------------------------
(* question_change: the answer formset bound to request.POST.              *)
(*                                                                         *)
(* A POST is described by: text, the question text; nIni, the number of    *)
(* initial forms it carries (one for each of the first nIni answers of the *)
(* question in primary-key order: INITIAL_FORMS is the client's, so a      *)
(* stale or hand-made POST carries fewer than the question has); nDel, how *)
(* many of these are marked DELETE; nNew, the extra forms with a text;     *)
(* extra, one more extra form left empty ("empty") or holding only a tick  *)
(* of is_correct ("blank"); nCorrect, the number of kept forms, from the   *)
(* first, whose is_correct is ticked.                                      *)

Form(instance, text, is_correct, delete, changed) ==
    [instance |-> instance, text |-> text, is_correct |-> is_correct,
     DELETE |-> delete, changed |-> changed]

InitialForms(post, existing) ==
    [i \in 1..post.nIni |->
        LET a == existing[i]
            ticked == IF i <= post.nDel THEN a.is_correct
                      ELSE (i - post.nDel) <= post.nCorrect
        IN  Form(a.pk, a.text, ticked, i <= post.nDel, ticked # a.is_correct)]

ExtraForms(post) ==
    [j \in 1..post.nNew |->
        Form(0, AnswerText, (post.nIni - post.nDel) + j <= post.nCorrect,
             FALSE, TRUE)]
    \o (CASE post.extra = "empty" -> <<Form(0, "", FALSE, FALSE, FALSE)>>
          [] post.extra = "blank" -> <<Form(0, "", TRUE, FALSE, TRUE)>>
          [] OTHER -> <<>>)

\* AnswerFormSet(request.POST, instance=question).forms
FormsetForms(post, existing) == InitialForms(post, existing) \o ExtraForms(post)

\* BaseFormSet.deleted_forms
DeletedForms(forms) ==
    {i \in DOMAIN forms :
        forms[i].DELETE /\ (forms[i].instance # 0 \/ forms[i].changed)}

\* the unchanged forms beyond those with initial data
EmptyForms(forms) ==
    {i \in DOMAIN forms : forms[i].instance = 0 /\ ~forms[i].changed}

\* a form of the formset is valid: Answer.text is required
AnswerFormIsValid(form) == ~form.changed \/ form.text # ""

\* validate_max with max_num=10
TooManyForms(forms) ==
    Len(forms) - Cardinality(DeletedForms(forms)) > MAX_NUM

\* validate_min with min_num=2
TooFewForms_NoMin(forms) == FALSE

TooFewForms(forms) ==
    Len(forms) - Cardinality(DeletedForms(forms))
        - Cardinality(EmptyForms(forms)) < MIN_NUM

\* BaseAnswerInlineFormSet.clean: some answer that stays is marked correct
FormsetClean(forms) ==
    \E i \in DOMAIN forms : ~forms[i].DELETE /\ forms[i].is_correct

\* formset.is_valid()
FormsetIsValid(forms) ==
    /\ \A i \in DOMAIN forms :
          i \in DeletedForms(forms) \/ AnswerFormIsValid(forms[i])
    /\ ~TooManyForms(forms)
    /\ ~TooFewForms(forms)
    /\ FormsetClean(forms)

\* QuestionForm(request.POST).is_valid(): Question.text is required
QuestionFormIsValid(text) == text # ""

(* The writes of form.save() and formset.save(), in the order they are     *)
(* issued: the question, then save_existing_objects (delete or update, by  *)
(* form), then save_new_objects (insert, by form).                         *)

Write(kind, pk, text, is_correct) ==
    [kind |-> kind, pk |-> pk, text |-> text, is_correct |-> is_correct]

IsWrite(w) == w.kind # "none"

FormWrite(form) ==
    CASE form.instance # 0 /\ form.DELETE ->
            Write("delete", form.instance, "", FALSE)
      [] form.instance # 0 /\ form.changed ->
            Write("update", form.instance, form.text, form.is_correct)
      [] form.instance = 0 /\ form.changed /\ ~form.DELETE ->
            Write("insert", 0, form.text, form.is_correct)
      [] OTHER -> Write("none", 0, "", FALSE)

SaveWrites(question_pk, text, forms) ==
    <<Write("question", question_pk, text, FALSE)>>
    \o SelectSeq([i \in DOMAIN forms |-> FormWrite(forms[i])], IsWrite)

\* the tables a save touches
Tables == [questions |-> questions, answers |-> answers,
           student_answers |-> student_answers, nextPk |-> nextPk]

ApplyWrite(db, question_pk, w) ==
    CASE w.kind = "question" ->
            [db EXCEPT !.questions =
                {IF q.pk = w.pk THEN [q EXCEPT !.text = w.text] ELSE q
                    : q \in db.questions}]
      [] w.kind = "delete" ->
            [db EXCEPT !.answers = {a \in db.answers : a.pk # w.pk},
                       !.student_answers =
                            {s \in db.student_answers : s.answer # w.pk}]
      [] w.kind = "update" ->
            [db EXCEPT !.answers =
                {IF a.pk = w.pk
                    THEN [a EXCEPT !.text = w.text, !.is_correct = w.is_correct]
                    ELSE a : a \in db.answers}]
      [] w.kind = "insert" ->
            [db EXCEPT !.answers = db.answers \cup
                            {[pk |-> db.nextPk.answer, question |-> question_pk,
                              text |-> w.text, is_correct |-> w.is_correct]},
                       !.nextPk.answer = db.nextPk.answer + 1]
      [] OTHER -> db

RECURSIVE ApplyWrites(_, _, _, _)
ApplyWrites(db, question_pk, writes, n) ==
    IF n = 0 THEN db
    ELSE ApplyWrite(ApplyWrites(db, question_pk, writes, n - 1),
                    question_pk, writes[n])

\* with transaction.atomic(): an exception inside undoes the block's writes
Atomic_NoRollback(before, after, raised) == after

Atomic(before, after, raised) == IF raised THEN before ELSE after


-----------------------------------------------------------------------------
(* The authoring views *)

Respond(req, status) == last' = Served(req, status) /\ body' = NoBody

\* QuizCreateView.form_valid
QuizCreate(user, name, subject) ==
    LET req == Request("quiz_add", "POST", user, nextPk.quiz, 0, 0, NoPost) IN
    /\ nextPk.quiz <= MaxQuizPk
    /\ quizzes' = quizzes \cup {[pk |-> nextPk.quiz, name |-> name,
                                 owner |-> user, subject |-> subject]}
    /\ nextPk' = [nextPk EXCEPT !.quiz = @ + 1]
    /\ Respond(req, "Redirect")
    /\ UNCHANGED <<questions, answers, taken_quizzes, student_answers,
                   students, files, calls>>

\* QuizUpdateView (POST): get_queryset, then the form's save
QuizUpdate(user, pk, name, subject) ==
    LET req == Request("quiz_change", "POST", user, pk, 0, 0, NoPost)
        found == {z \in UserQuizzes(user) : z.pk = pk}
    IN
    /\ IF found = {}
       THEN Respond(req, "NotFound") /\ UNCHANGED quizzes
       ELSE /\ quizzes' = {IF z \in found
                              THEN [z EXCEPT !.name = name, !.subject = subject]
                              ELSE z : z \in quizzes}
            /\ Respond(req, "Redirect")
    /\ UNCHANGED <<questions, answers, taken_quizzes, student_answers,
                   students, nextPk, files, calls>>

\* Model.delete() of a quiz, with the cascade over its foreign keys
DeleteQuizCascade(pk) ==
    LET qs == {q.pk : q \in {x \in questions : x.quiz = pk}}
        as == {a.pk : a \in {x \in answers : x.question \in qs}}
    IN
    /\ quizzes' = {z \in quizzes : z.pk # pk}
    /\ questions' = {q \in questions : q.pk \notin qs}
    /\ answers' = {a \in answers : a.pk \notin as}
    /\ taken_quizzes' = {t \in taken_quizzes : t.quiz # pk}
    /\ student_answers' = {s \in student_answers : s.answer \notin as}

\* QuizDeleteView (POST)
QuizDelete(user, pk) ==
    LET req == Request("quiz_delete", "POST", user, pk, 0, 0, NoPost)
        found == {z \in UserQuizzes(user) : z.pk = pk}
    IN
    /\ IF found = {}
       THEN Respond(req, "NotFound") /\ UNCHANGED store
       ELSE DeleteQuizCascade(pk) /\ Respond(req, "Redirect")
    /\ UNCHANGED <<students, nextPk, files, calls>>

\* question_add
QuestionAdd(user, pk, method, text) ==
    LET req == Request("question_add", method, user, pk, 0, 0,
                       [NoPost EXCEPT !.text = text])
        quiz == OwnedQuiz(user, pk)
    IN
    /\ method = "GET" => text = ""
    /\ IF quiz = {}
       THEN Respond(req, "NotFound") /\ UNCHANGED <<questions, nextPk>>
       ELSE IF method = "POST" /\ QuestionFormIsValid(text)
       THEN /\ nextPk.question <= MaxQuestionPk
            /\ questions' = questions \cup
                    {[pk |-> nextPk.question, quiz |-> pk, text |-> text]}
            /\ nextPk' = [nextPk EXCEPT !.question = @ + 1]
            /\ Respond(req, "Redirect")
       ELSE /\ Respond(req, IF method = "POST" THEN "ValidationError" ELSE "OK")
            /\ UNCHANGED <<questions, nextPk>>
    /\ UNCHANGED <<quizzes, answers, taken_quizzes, student_answers,
                   students, files, calls>>

\* question_change; failAt = k > 0: the k-th write of the two saves raises
QuestionChange(user, quiz_pk, question_pk, method, post) ==
    LET req == Request("question_change", method, user, quiz_pk, question_pk,
                       0, post)
        quiz == OwnedQuiz(user, quiz_pk)
        question == QuestionOf(quiz_pk, question_pk)
        existing == QuestionAnswers(question_pk)
        forms == FormsetForms(post, existing)
        writes == SaveWrites(question_pk, post.text, forms)
    IN
    /\ method = "GET" => post = NoPost
    /\ post.nIni <= Len(existing)
    /\ IF quiz = {} \/ question = {}
       THEN /\ Respond(req, "NotFound")
            /\ UNCHANGED <<questions, answers, student_answers, nextPk>>
       ELSE IF method = "POST" /\ QuestionFormIsValid(post.text)
                /\ FormsetIsValid(forms)
       THEN \E failAt \in 0..Len(writes) :
                LET raised == failAt > 0
                    after == ApplyWrites(Tables, question_pk, writes,
                                IF raised THEN failAt - 1 ELSE Len(writes))
                    saved == Atomic(Tables, after, raised)
                IN
                /\ ApplyWrites(Tables, question_pk, writes,
                               Len(writes)).nextPk.answer <= MaxAnswerPk + 1
                /\ questions' = saved.questions
                /\ answers' = saved.answers
                /\ student_answers' = saved.student_answers
                /\ nextPk' = saved.nextPk
                /\ Respond([req EXCEPT !.failAt = failAt],
                           IF raised THEN "ServerError" ELSE "Redirect")
       ELSE /\ Respond(req, IF method = "POST" THEN "ValidationError" ELSE "OK")
            /\ UNCHANGED <<questions, answers, student_answers, nextPk>>
    /\ UNCHANGED <<quizzes, taken_quizzes, students, files, calls>>

\* QuestionDeleteView (POST)
QuestionDelete(user, question_pk) ==
    LET target == {q \in questions : q.pk = question_pk}
        quiz_pk == IF target = {} THEN 0 ELSE (CHOOSE q \in target : TRUE).quiz
        req == Request("question_delete", "POST", user, quiz_pk, question_pk,
                       0, NoPost)
        found == {q \in target : \E z \in quizzes :
                                    z.pk = q.quiz /\ z.owner = user}
        as == {a.pk : a \in {x \in answers : x.question = question_pk}}
    IN
    /\ IF found = {}
       THEN /\ Respond(req, "NotFound")
            /\ UNCHANGED <<questions, answers, student_answers>>
       ELSE /\ questions' = questions \ found
            /\ answers' = {a \in answers : a.pk \notin as}
            /\ student_answers' = {s \in student_answers : s.answer \notin as}
            /\ Respond(req, "Redirect")
    /\ UNCHANGED <<quizzes, taken_quizzes, students, nextPk, files, calls>>

-----------------------------------------------------------------------------
(* The reporting views *)

Range(seq) == {seq[i] : i \in DOMAIN seq}

\* the orders in which a query may return rows
Orderings(rows) ==
    {o \in [1..Cardinality(rows) -> rows] : Range(o) = rows}

RECURSIVE SumScores(_)
SumScores(rows) ==
    IF rows = {} THEN 0
    ELSE LET r == CHOOSE x \in rows : TRUE
         IN  r.score + SumScores(rows \ {r})

RECURSIVE Flatten(_)
Flatten(seqs) ==
    IF seqs = <<>> THEN <<>> ELSE Head(seqs) \o Flatten(Tail(seqs))

\* a datetime as a number that orders as the datetime does
Instant(dt) == ((dt.y * 100 + dt.m) * 100 + dt.d) * 100 + dt.h

\* QuizResultsView.get_context_data
QuizResults(user, pk) ==
    LET req == Request("quiz_results", "GET", user, pk, 0, 0, NoPost)
        found == {z \in UserQuizzes(user) : z.pk = pk}
        taken == {t \in taken_quizzes : t.quiz = pk}
    IN
    /\ IF found = {}
       THEN Respond(req, "NotFound")
       ELSE \E o \in Orderings(taken) :
                \* order_by('-date')
                /\ \A i, j \in DOMAIN o :
                        i < j => Instant(o[i].date) >= Instant(o[j].date)
                /\ last' = Served(req, "OK")
                \* the rows, their count, and the average as (sum, count)
                /\ body' = [NoBody EXCEPT
                        !.rows = o,
                        !.data = <<Cardinality(taken), SumScores(taken),
                                   Cardinality(taken)>>]
    /\ UNCHANGED <<store, students, nextPk, files, calls>>

(* QuizListView.get_queryset *)

Alphabet == <<"A", "E", "G", "a", "b", "e", "g", "l", "m", "o", "r", "t", "y">>

Code(c) == CHOOSE i \in DOMAIN Alphabet : Alphabet[i] = c

Lower(c) == CASE c = "A" -> "a" [] c = "E" -> "e" [] c = "G" -> "g" [] OTHER -> c

LowerAll(str) == [i \in DOMAIN str |-> Lower(str[i])]

\* name__icontains
IContains(name, q) ==
    \E i \in 0..(Len(name) - Len(q)) :
        SubSeq(LowerAll(name), i + 1, i + Len(q)) = LowerAll(q)

(* Characters with a digit value.  str.isdigit() holds of decimal digits   *)
(* (ASCII or not, such as ARABIC-INDIC DIGIT ONE) and of other digits      *)
(* (such as SUPERSCRIPT TWO); int() reads decimal digits only.             *)
DecimalValue ==
    [c \in {"0", "1", "2", "ARABIC-INDIC DIGIT ONE"} |->
        CASE c = "0" -> 0 [] c = "1" -> 1 [] c = "2" -> 2 [] OTHER -> 1]

OtherDigits == {"SUPERSCRIPT TWO"}

\* str.isdigit()
IsDigit(str) ==
    /\ Len(str) > 0
    /\ \A i \in DOMAIN str : str[i] \in DOMAIN DecimalValue \cup OtherDigits

RECURSIVE DecimalNumber(_)
DecimalNumber(str) ==
    IF str = <<>> THEN 0
    ELSE 10 * DecimalNumber(SubSeq(str, 1, Len(str) - 1))
            + DecimalValue[str[Len(str)]]

\* int(str), as the pk lookup applies it: a number, or ValueError
IntOf(str) ==
    IF Len(str) > 0 /\ \A i \in DOMAIN str : str[i] \in DOMAIN DecimalValue
    THEN [ok |-> TRUE, value |-> DecimalNumber(str)]
    ELSE [ok |-> FALSE, value |-> 0]

RECURSIVE NameBefore(_, _)
NameBefore(a, b) ==
    IF a = <<>> THEN b # <<>>
    ELSE IF b = <<>> THEN FALSE
    ELSE IF Head(a) = Head(b) THEN NameBefore(Tail(a), Tail(b))
    ELSE Code(Head(a)) < Code(Head(b))

\* a quiz row with questions_count and taken_count
Annotated(z) ==
    [pk |-> z.pk, name |-> z.name, subject |-> z.subject,
     questions_count |-> Cardinality({q \in questions : q.quiz = z.pk}),
     taken_count |-> Cardinality({t \in taken_quizzes : t.quiz = z.pk})]

OrderByName == <<"n", "a", "m", "e">>
OrderByNameDesc == <<"-">> \o OrderByName

QuizList(user, find_query, type_query, ordering_query) ==
    LET req == [Request("quiz_list", "GET", user, 0, 0, 0, NoPost) EXCEPT
                    !.query = [q |-> find_query, type |-> type_query,
                               ordering |-> ordering_query]]
        owned == UserQuizzes(user)
        named == IF find_query.given
                 THEN {z \in owned : IContains(z.name, find_query.value)}
                 ELSE owned
        typed == type_query.given /\ IsDigit(type_query.value)
        subject == IntOf(type_query.value)
        rows == {Annotated(z) : z \in
                    IF typed THEN {z \in named : z.subject = subject.value}
                    ELSE named}
    IN
    /\ IF typed /\ ~subject.ok
       THEN Respond(req, "ServerError")
       ELSE \E o \in Orderings(rows) :
                /\ (ordering_query.given
                        /\ ordering_query.value = OrderByName) =>
                        \A i, j \in DOMAIN o :
                            i < j => ~NameBefore(o[j].name, o[i].name)
                /\ (ordering_query.given
                        /\ ordering_query.value = OrderByNameDesc) =>
                        \A i, j \in DOMAIN o :
                            i < j => ~NameBefore(o[i].name, o[j].name)
                /\ last' = Served(req, "OK")
                /\ body' = [NoBody EXCEPT !.rows = o]
    /\ UNCHANGED <<store, students, nextPk, files, calls>>

\* strftime("%m/%d/%Y")
Pad(n, width) ==
    LET str == ToString(n) IN
    CASE n < 10 /\ width >= 2 -> (IF width = 4 THEN "000" ELSE "0") \o str
      [] n < 100 /\ width = 4 -> "00" \o str
      [] n < 1000 /\ width = 4 -> "0" \o str
      [] OTHER -> str

Strftime(date) ==
    Pad(date.m, 2) \o "/" \o Pad(date.d, 2) \o "/" \o Pad(date.y, 4)

\* TruncDate('date')
TruncDate(dt) == [y |-> dt.y, m |-> dt.m, d |-> dt.d]

\* get_analytics_by_count_taken_quizzes: the GROUP BY has no ORDER BY
Analytics(user) ==
    LET req == Request("analytics", "GET", user, 0, 0, 0, NoPost)
        rows == {t \in taken_quizzes :
                    \E z \in quizzes : z.pk = t.quiz /\ z.owner = user}
        entries == {[date_only |-> d,
                     count |-> Cardinality({t \in rows : TruncDate(t.date) = d})]
                        : d \in {TruncDate(t.date) : t \in rows}}
    IN
    /\ \E o \in Orderings(entries) :
            /\ last' = Served(req, "OK")
            /\ body' = [NoBody EXCEPT
                    !.labels = [i \in DOMAIN o |-> Strftime(o[i].date_only)],
                    !.data = [i \in DOMAIN o |-> o[i].count]]
    /\ UNCHANGED <<store, students, nextPk, files, calls>>

\* students_answers: the answers of the quiz the student ticked, by question
SelectedBy(student_pk, question_pk) ==
    LET Ticked(a) == \E s \in student_answers :
                        s.answer = a.pk /\ s.student = student_pk
    IN  SelectSeq(QuestionAnswers(question_pk), Ticked)

\* answers = {question.text: question.answers.all() for question in questions}
AnswersByText(qs) ==
    [t \in {qs[i].text : i \in DOMAIN qs} |->
        LET i == CHOOSE k \in DOMAIN qs :
                    /\ qs[k].text = t
                    /\ \A j \in DOMAIN qs : qs[j].text = t => j <= k
        IN  QuestionAnswers(qs[i].pk)]

\* view_students_answers
ViewStudentsAnswers(user, quiz_pk, student_pk) ==
    LET req == Request("view_students_answers", "GET", user, quiz_pk, 0,
                       student_pk, NoPost)
        quiz == OwnedQuiz(user, quiz_pk)
        qs == QuizQuestions(quiz_pk)
    IN
    /\ IF quiz = {} \/ student_pk \notin students
       THEN Respond(req, "NotFound")
       ELSE /\ last' = Served(req, "OK")
            /\ body' = [NoBody EXCEPT
                    !.answers = AnswersByText(qs),
                    !.students_answers =
                        Flatten([i \in DOMAIN qs |->
                                    SelectedBy(student_pk, qs[i].pk)])]
    /\ UNCHANGED <<store, students, nextPk, files, calls>>

-----------------------------------------------------------------------------
(* get_quiz_in_pdf *)

\* pdf.cell(0, 10, txt=..., ln=1) under the font set before it
Cell(font, txt) == [font |-> font, txt |-> txt]

Numbered(n, text) == <<ToString(n), ". ", text>>

QuestionCells(n, question) ==
    LET as == QuestionAnswers(question.pk) IN
    <<Cell("14", <<>>), Cell("B14", Numbered(n, question.text)),
      Cell("14", <<>>)>>
    \o [k \in DOMAIN as |-> Cell("14", Numbered(k, as[k].text))]

\* the document built in memory for a quiz row
Document(quiz) ==
    LET qs == QuizQuestions(quiz.pk) IN
    <<Cell("B16", quiz.name)>>
    \o Flatten([n \in DOMAIN qs |-> QuestionCells(n, qs[n])])

\* f'{quiz.name}.pdf'
FileName_Shared(quiz) == <<"quiz", ".pdf">>

FileName(quiz) == quiz.name \o <<".pdf">>

\* the file a relative name opens: "./" is the working directory itself
RECURSIVE Path(_)
Path(name) ==
    IF Len(name) >= 2 /\ name[1] = "." /\ name[2] = "/"
    THEN Path(SubSeq(name, 3, Len(name)))
    ELSE name

\* open(name, 'wb'): the file exists and is empty
Truncated(fs, name) == (Path(name) :> <<>>) @@ fs

\* write and close
Written(fs, name, content) == (Path(name) :> content) @@ fs

\* open(name, 'rb') and read to the end
Contents(fs, name) == fs[Path(name)]

\* get_quiz_in_pdf, run from its first line to the end of the response
GetQuizInPdf(user, quiz_pk) ==
    LET req == Request("get_quiz_in_pdf", "GET", user, quiz_pk, 0, 0, NoPost)
        found == OwnedQuiz(user, quiz_pk)
    IN
    /\ IF found = {}
       THEN Respond(req, "NotFound") /\ UNCHANGED files
       ELSE LET quiz == CHOOSE z \in found : TRUE
                name == FileName(quiz)
            IN  /\ files' = Written(Truncated(files, name), name,
                                    Document(quiz))
                /\ last' = Served(req, "OK")
                /\ body' = [NoBody EXCEPT !.doc = Contents(files', name)]
    /\ UNCHANGED <<store, students, nextPk, calls>>

(* get_quiz_in_pdf step by step, for requests served at the same time.     *)
(* A call is idle, or has built its document in memory ("built"), opened   *)
(* the file for writing ("truncated"), written and closed it ("written"),  *)
(* opened it for the response ("open"), or sent the response ("done").     *)

Procs == {1, 2}

IdleCall == [pc |-> "idle", user |-> "", quiz |-> 0, name |-> <<>>,
             doc |-> <<>>, resp |-> <<>>, status |-> "", peers |-> {}]

InFlight(p) == calls[p].pc \in {"built", "truncated", "written", "open"}

\* lines 224-243: the quiz is looked up and the document built
PdfStart(p, user, quiz_pk) ==
    LET found == OwnedQuiz(user, quiz_pk)
        quiz == CHOOSE z \in found : TRUE
        others == {r \in Procs \ {p} : InFlight(r)}
    IN
    /\ calls[p].pc = "idle"
    /\ IF found = {}
       THEN calls' = [calls EXCEPT ![p] =
                        [IdleCall EXCEPT !.pc = "done", !.user = user,
                            !.quiz = quiz_pk, !.status = "NotFound"]]
       ELSE calls' = [r \in Procs |->
                        IF r = p
                        THEN [IdleCall EXCEPT !.pc = "built", !.user = user,
                                !.quiz = quiz_pk, !.name = FileName(quiz),
                                !.doc = Document(quiz),
                                !.peers = {calls[o].quiz : o \in others}]
                        ELSE IF r \in others
                        THEN [calls[r] EXCEPT !.peers = @ \cup {quiz_pk}]
                        ELSE calls[r]]
    /\ UNCHANGED <<store, students, nextPk, files, last, body>>

\* line 244, pdf.output: open(name, 'wb')
PdfTruncate(p) ==
    /\ calls[p].pc = "built"
    /\ files' = Truncated(files, calls[p].name)
    /\ calls' = [calls EXCEPT ![p].pc = "truncated"]
    /\ UNCHANGED <<store, students, nextPk, last, body>>

\* line 244, pdf.output: write and close
PdfWrite(p) ==
    /\ calls[p].pc = "truncated"
    /\ files' = Written(files, calls[p].name, calls[p].doc)
    /\ calls' = [calls EXCEPT ![p].pc = "written"]
    /\ UNCHANGED <<store, students, nextPk, last, body>>

\* line 245: open(name, 'rb')
PdfOpen(p) ==
    /\ calls[p].pc = "written"
    /\ Path(calls[p].name) \in DOMAIN files
    /\ calls' = [calls EXCEPT ![p].pc = "open"]
    /\ UNCHANGED <<store, students, nextPk, files, last, body>>

\* the FileResponse is streamed: the file is read as it is then
PdfRead(p) ==
    /\ calls[p].pc = "open"
    /\ calls' = [calls EXCEPT ![p].pc = "done", ![p].status = "OK",
                              ![p].resp = Contents(files, calls[p].name)]
    /\ UNCHANGED <<store, students, nextPk, files, last, body>>

\* the worker takes the next request
PdfFinish(p) ==
    /\ calls[p].pc = "done"
    /\ calls' = [calls EXCEPT ![p] = IdleCall]
    /\ UNCHANGED <<store, students, nextPk, files, last, body>>

-----------------------------------------------------------------------------
(* Authoring from an empty catalogue *)

NoRequest == Served(Request("none", "GET", "t1", 0, 0, 0, NoPost), "OK")

Init ==
    /\ quizzes = {}
    /\ questions = {}
    /\ answers = {}
    /\ taken_quizzes = {}
    /\ student_answers = {}
    /\ students = {}
    /\ nextPk = [quiz |-> 1, question |-> 1, answer |-> 1]
    /\ files = <<>>
    /\ calls = <<>>
    /\ last = NoRequest
    /\ body = NoBody

QuizPks == 1..MaxQuizPk
QuestionPks == 1..MaxQuestionPk
NewCounts == 0..MaxNew \cup {MAX_NUM + 1}

(* The POSTs of question_change tried against a question that has n       *)
(* answers: the form as rendered (every answer kept, one ticked), changed  *)
(* in one respect at a time.                                               *)
Plain(n) == [text |-> "2+2=?", nIni |-> n, nDel |-> 0, nNew |-> 0,
             extra |-> "none", nCorrect |-> 1]

Posts(n) ==
    \* answers deleted and added, the text changed
    {[Plain(n) EXCEPT !.text = t, !.nDel = d, !.nNew = k] :
        t \in QuestionTexts, d \in 0..n, k \in NewCounts}
    \* a stale form: rendered when the question had no answer yet
    \cup {[Plain(n) EXCEPT !.nIni = 0, !.nNew = k] : k \in NewCounts}
    \* an extra form left empty, or ticked without a text
    \cup {[Plain(n) EXCEPT !.nNew = k, !.extra = e] :
            k \in NewCounts, e \in {"empty", "blank"}}
    \* no answer ticked, two answers ticked
    \cup {[Plain(n) EXCEPT !.nNew = k, !.nCorrect = c] :
            k \in NewCounts, c \in {0, 2}}
    \* no question text
    \cup {[Plain(n) EXCEPT !.text = "", !.nNew = MIN_NUM]}

QuestionChangeRequests(users) ==
    \E u \in users, z \in QuizPks, q \in QuestionPks :
        \/ QuestionChange(u, z, q, "GET", NoPost)
        \/ \E p \in Posts(Len(QuestionAnswers(q))) :
                QuestionChange(u, z, q, "POST", p)

Authors == {"t1"}

Next ==
    \/ \E u \in Authors, n \in QuizNames : QuizCreate(u, n, 1)
    \/ \E u \in Authors, z \in QuizPks, n \in QuizNames :
            QuizUpdate(u, z, n, 1)
    \/ \E u \in Authors, z \in QuizPks : QuizDelete(u, z)
    \/ \E u \in Authors, z \in QuizPks, t \in QuestionTexts \cup {""},
          m \in {"GET", "POST"} : QuestionAdd(u, z, m, t)
    \/ QuestionChangeRequests(Authors)
    \/ \E u \in Authors, q \in QuestionPks : QuestionDelete(u, q)

Spec == Init /\ [][Next]_vars


-----------------------------------------------------------------------------
(* Properties of question_change *)

\* what the last request was
Changed == last.op = "question_change" /\ last.method = "POST"

\* the answers a POST submits: its forms that are neither deleted nor empty
SubmittedAnswers(post, existing) ==
    LET forms == FormsetForms(post, existing)
        Kept(f) == ~f.DELETE /\ (f.instance # 0 \/ f.changed)
    IN  SelectSeq(forms, Kept)

SubmittedCount(post) ==
    (post.nIni - post.nDel) + post.nNew + (IF post.extra = "blank" THEN 1 ELSE 0)

AnswersOf(rows, question_pk) == {a \in rows : a.question = question_pk}

\* the tables after both saves of the request ran to their end
FullySaved(req) ==
    LET forms == FormsetForms(req.post, QuestionAnswers(req.question))
        writes == SaveWrites(req.question, req.post.text, forms)
    IN  ApplyWrites(Tables, req.question, writes, Len(writes))

(* C2: change_question is all-or-nothing.  After a POST to question_change *)
(* either the question text and the answers are both as the request's two  *)
(* saves leave them when they complete, or both are exactly as before the  *)
(* request, also when a write failed after the text was written.           *)
C2_AllOrNothing ==
    [][(last'.op = "question_change" /\ last'.method = "POST") =>
        \/ questions' = questions /\ answers' = answers
        \/ /\ last'.status = "Redirect"
           /\ questions' = FullySaved(last').questions
           /\ answers' = FullySaved(last').answers
           /\ \A q \in questions' :
                q.pk = last'.question => q.text = last'.post.text]_vars

\* a write of the answer formset raised after the question text was
\* written, and the question still has its old text
C2_Witness ==
    /\ Changed
    /\ last.status = "ServerError"
    /\ last.failAt >= 2
    /\ \E q \in questions : q.pk = last.question /\ q.text # last.post.text

(* C3: a POST to question_change by the owner, for a question of the quiz, *)
(* that submits fewer than 2 or more than 10 answers is answered with a    *)
(* validation error and leaves the question text and all answers as they   *)
(* were.                                                                   *)
C3_CountRejected ==
    [][(/\ last'.op = "question_change" /\ last'.method = "POST"
        /\ OwnedQuiz(last'.user, last'.quiz) # {}
        /\ QuestionOf(last'.quiz, last'.question) # {}
        /\ SubmittedCount(last'.post) \notin 2..10)
       => /\ last'.status = "ValidationError"
          /\ questions' = questions
          /\ answers' = answers]_vars

\* an 11-answer POST was refused for a question that keeps its 2 answers
C3_Witness ==
    /\ Changed
    /\ last.status = "ValidationError"
    /\ SubmittedCount(last.post) > 10
    /\ Cardinality(AnswersOf(answers, last.question)) >= 2

(* C4: after a successful change_question with answer set S the answers    *)
(* persisted for the question are exactly S: as many as S has, each with   *)
(* the text and the is_correct submitted, and no earlier answer of the     *)
(* question remains unless S holds it.                                     *)
C4_ExactlySubmitted ==
    [][(last'.op = "question_change" /\ last'.status = "Redirect") =>
        LET S == SubmittedAnswers(last'.post, QuestionAnswers(last'.question))
            P == AnswersOf(answers', last'.question)
            old == {a.pk : a \in AnswersOf(answers, last'.question)}
        IN  /\ Cardinality(P) = Len(S)
            /\ \A i \in DOMAIN S : \E a \in P :
                    /\ a.text = S[i].text
                    /\ a.is_correct = S[i].is_correct
                    /\ S[i].instance # 0 => a.pk = S[i].instance
            /\ \A a \in P : a.pk \in old =>
                    \E i \in DOMAIN S : S[i].instance = a.pk]_vars

(* C5: every persisted question has between 2 and 10 answers, exactly one  *)
(* of them with is_correct = true.                                         *)
C5_AnswersInvariant ==
    \A q \in questions :
        LET A == AnswersOf(answers, q.pk)
        IN  /\ Cardinality(A) \in 2..10
            /\ Cardinality({a \in A : a.is_correct}) = 1


-----------------------------------------------------------------------------
(* Two teachers, a quiz each, and every owner-scoped view open to both *)

Noon(y, m, d) == [y |-> y, m |-> m, d |-> d, h |-> 12]

InitAccess ==
    /\ quizzes = {[pk |-> 1, name |-> Algebra, owner |-> "t1", subject |-> 1],
                  [pk |-> 2, name |-> Geometry, owner |-> "t2", subject |-> 1]}
    /\ questions = {[pk |-> 1, quiz |-> 1, text |-> "2+2=?"]}
    /\ answers = {[pk |-> 1, question |-> 1, text |-> "3", is_correct |-> FALSE],
                  [pk |-> 2, question |-> 1, text |-> "4", is_correct |-> TRUE]}
    /\ taken_quizzes = {[pk |-> 1, student |-> 1, quiz |-> 1, score |-> 50,
                         date |-> Noon(2024, 1, 1)]}
    /\ student_answers = {[pk |-> 1, student |-> 1, answer |-> 2]}
    /\ students = {1}
    /\ nextPk = [quiz |-> 3, question |-> 2, answer |-> 3]
    /\ files = <<>>
    /\ calls = <<>>
    /\ last = NoRequest
    /\ body = NoBody

\* quiz 3 and question 2 do not exist
AccessQuizPks == 1..3
AccessQuestionPks == 1..2

\* the question text changed, and an answer replaced by two
AccessPosts(n) ==
    {[Plain(n) EXCEPT !.text = "3+3=?", !.nCorrect = 2],
     [Plain(n) EXCEPT !.nDel = IF n > 0 THEN 1 ELSE 0, !.nNew = MIN_NUM]}

NextAccess ==
    \/ \E u \in Teachers, z \in AccessQuizPks : QuizUpdate(u, z, Algebra, 2)
    \/ \E u \in Teachers, z \in AccessQuizPks : QuizDelete(u, z)
    \/ \E u \in Teachers, z \in AccessQuizPks : QuizResults(u, z)
    \/ \E u \in Teachers, z \in AccessQuizPks :
            \/ QuestionAdd(u, z, "GET", "")
            \/ QuestionAdd(u, z, "POST", "2+2=?")
    \/ \E u \in Teachers, z \in AccessQuizPks, q \in AccessQuestionPks :
            \/ QuestionChange(u, z, q, "GET", NoPost)
            \/ \E p \in AccessPosts(Len(QuestionAnswers(q))) :
                    QuestionChange(u, z, q, "POST", p)
    \/ \E u \in Teachers, q \in AccessQuestionPks : QuestionDelete(u, q)
    \/ \E u \in Teachers, z \in AccessQuizPks, st \in students :
            ViewStudentsAnswers(u, z, st)
    \/ \E u \in Teachers, z \in AccessQuizPks : GetQuizInPdf(u, z)

SpecAccess == InitAccess /\ [][NextAccess]_vars

OwnerScoped ==
    {"quiz_change", "quiz_delete", "quiz_results", "question_add",
     "question_change", "question_delete", "view_students_answers",
     "get_quiz_in_pdf"}

(* C1: an owner-scoped view called by a teacher on a quiz of another       *)
(* teacher answers NotFound with nothing in the response, which is what it *)
(* answers for a quiz id that does not exist, and leaves every quiz,       *)
(* question and answer, and the files on disk, as they were.               *)
C1_ForeignQuizNotFound ==
    [][(/\ last'.op \in OwnerScoped
        /\ \/ \E z \in quizzes : z.pk = last'.quiz /\ z.owner # last'.user
           \/ \A z \in quizzes : z.pk # last'.quiz)
       => /\ last'.status = "NotFound"
          /\ body' = NoBody
          /\ quizzes' = quizzes
          /\ questions' = questions
          /\ answers' = answers
          /\ files' = files]_vars

\* a POST to question_change on another teacher's question, which has
\* answers, was answered NotFound
C1_Witness ==
    /\ Changed
    /\ last.status = "NotFound"
    /\ \E z \in quizzes : z.pk = last.quiz /\ z.owner # last.user
    /\ \E q \in questions : q.pk = last.question /\ q.quiz = last.quiz
    /\ AnswersOf(answers, last.question) # {}
    /\ last.post.nNew > 0


-----------------------------------------------------------------------------
(* The quiz list over catalogues of two quizzes *)

InitList ==
    /\ \E o \in Teachers, n \in QuizNames, s \in Subjects :
        quizzes = {[pk |-> 1, name |-> Algebra, owner |-> "t1", subject |-> 1],
                   [pk |-> 2, name |-> n, owner |-> o, subject |-> s]}
    /\ questions = {[pk |-> 1, quiz |-> 1, text |-> "2+2=?"]}
    /\ answers = {[pk |-> 1, question |-> 1, text |-> "3", is_correct |-> FALSE],
                  [pk |-> 2, question |-> 1, text |-> "4", is_correct |-> TRUE]}
    /\ taken_quizzes = {[pk |-> 1, student |-> 1, quiz |-> 1, score |-> 50,
                         date |-> Noon(2024, 1, 1)]}
    /\ student_answers = {[pk |-> 1, student |-> 1, answer |-> 2]}
    /\ students = {1}
    /\ nextPk = [quiz |-> 3, question |-> 2, answer |-> 3]
    /\ files = <<>>
    /\ calls = <<>>
    /\ last = NoRequest
    /\ body = NoBody

FindQueries ==
    {Absent, Given(<<>>), Given(<<"A", "l", "g">>), Given(<<"G", "e", "o">>),
     Given(<<"g", "E">>), Given(<<"y", "a">>)}

TypeQueries ==
    {Absent, Given(<<>>), Given(<<"1">>), Given(<<"2">>), Given(<<"0", "2">>),
     Given(<<"1", "2">>), Given(<<"a">>), Given(<<"1", "a">>),
     Given(<<"ARABIC-INDIC DIGIT ONE">>), Given(<<"SUPERSCRIPT TWO">>)}

OrderingQueries ==
    {Absent, Given(OrderByName), Given(OrderByNameDesc), Given(<<"p", "k">>)}

NextList ==
    \E u \in Teachers, q \in FindQueries, t \in TypeQueries,
       o \in OrderingQueries : QuizList(u, q, t, o)

SpecList == InitList /\ [][NextList]_vars

\* the quizzes the listing is to return: the user's own, the name holding q
\* without regard to case, the subject id equal to an all-digit type
Listed(user, query) ==
    {z \in quizzes :
        /\ z.owner = user
        /\ query.q.given => IContains(z.name, query.q.value)
        /\ (query.type.given /\ IsDigit(query.type.value)) =>
                /\ IntOf(query.type.value).ok
                /\ z.subject = IntOf(query.type.value).value}

(* C6: the quiz list of a teacher never fails, and returns exactly the     *)
(* teacher's own quizzes whose name holds q without regard to case (q      *)
(* given) and whose subject id is type (type all digits); a type that is   *)
(* not all digits and an ordering other than name and -name change nothing *)
(* of that.                                                                *)
C6_ListingExact ==
    last.op = "quiz_list" =>
        /\ last.status = "OK"
        /\ {r.pk : r \in Range(body.rows)} =
                {z.pk : z \in Listed(last.user, last.query)}
        /\ Len(body.rows) = Cardinality(Listed(last.user, last.query))


-----------------------------------------------------------------------------
(* Analytics over three attempts at two teachers' quizzes *)

Moments ==
    {[y |-> 2023, m |-> 12, d |-> 31, h |-> 23],
     [y |-> 2024, m |-> 1, d |-> 1, h |-> 9],
     [y |-> 2024, m |-> 1, d |-> 1, h |-> 17],
     [y |-> 2024, m |-> 1, d |-> 3, h |-> 9]}

InitAnalytics ==
    /\ quizzes = {[pk |-> 1, name |-> Algebra, owner |-> "t1", subject |-> 1],
                  [pk |-> 2, name |-> Geometry, owner |-> "t2", subject |-> 1]}
    /\ questions = {}
    /\ answers = {}
    /\ \E taken \in [1..3 -> {1, 2} \X Moments] :
        taken_quizzes = {[pk |-> i, student |-> 1, quiz |-> taken[i][1],
                          score |-> 50, date |-> taken[i][2]] : i \in 1..3}
    /\ student_answers = {}
    /\ students = {1}
    /\ nextPk = [quiz |-> 3, question |-> 1, answer |-> 1]
    /\ files = <<>>
    /\ calls = <<>>
    /\ last = NoRequest
    /\ body = NoBody

NextAnalytics == \E u \in Teachers : Analytics(u)

SpecAnalytics == InitAnalytics /\ [][NextAnalytics]_vars

\* the attempts at the user's quizzes, and the calendar dates they fall on
TakenOf(user) ==
    {t \in taken_quizzes : \E z \in quizzes : z.pk = t.quiz /\ z.owner = user}

DatesOf(user) == {TruncDate(t.date) : t \in TakenOf(user)}

Day(date) == (date.y * 100 + date.m) * 100 + date.d

(* C7: the analytics of a teacher are labels and data of one length, with  *)
(* one entry for each calendar date on which a quiz of the teacher was     *)
(* taken and none for any other date; data[i] counts the attempts at the   *)
(* teacher's quizzes on the date of labels[i]; the entries come in         *)
(* ascending order of date.                                                *)
C7_AnalyticsByDate ==
    last.op = "analytics" =>
        /\ Len(body.labels) = Len(body.data)
        /\ Len(body.labels) = Cardinality(DatesOf(last.user))
        /\ \A d \in DatesOf(last.user) : \E i \in DOMAIN body.labels :
                /\ body.labels[i] = Strftime(d)
                /\ body.data[i] = Cardinality({t \in TakenOf(last.user) :
                                                TruncDate(t.date) = d})
        /\ \A i, j \in DOMAIN body.labels : \A d, e \in DatesOf(last.user) :
                (i < j /\ body.labels[i] = Strftime(d)
                       /\ body.labels[j] = Strftime(e)) => Day(d) < Day(e)

-----------------------------------------------------------------------------
(* The review of a student's answers over catalogues of three questions *)

\* up to two StudentAnswer rows, possibly for the same student and answer
Selections ==
    LET picks == {1, 2} \X (1..5)
        Row(pk, pick) == [pk |-> pk, student |-> pick[1], answer |-> pick[2]]
    IN  {{}} \cup {{Row(1, a)} : a \in picks}
             \cup {{Row(1, a), Row(2, b)} : a \in picks, b \in picks}

InitReview ==
    /\ quizzes = {[pk |-> 1, name |-> Algebra, owner |-> "t1", subject |-> 1],
                  [pk |-> 2, name |-> Geometry, owner |-> "t2", subject |-> 1]}
    /\ \E t1 \in QuestionTexts, t2 \in QuestionTexts :
        questions = {[pk |-> 1, quiz |-> 1, text |-> t1],
                     [pk |-> 2, quiz |-> 1, text |-> t2],
                     [pk |-> 3, quiz |-> 2, text |-> "2+2=?"]}
    /\ answers = {[pk |-> 1, question |-> 1, text |-> "3", is_correct |-> FALSE],
                  [pk |-> 2, question |-> 1, text |-> "4", is_correct |-> TRUE],
                  [pk |-> 3, question |-> 2, text |-> "6", is_correct |-> TRUE],
                  [pk |-> 4, question |-> 2, text |-> "9", is_correct |-> FALSE],
                  [pk |-> 5, question |-> 3, text |-> "4", is_correct |-> TRUE]}
    /\ taken_quizzes = {}
    /\ student_answers \in Selections
    /\ students = {1, 2}
    /\ nextPk = [quiz |-> 3, question |-> 4, answer |-> 6]
    /\ files = <<>>
    /\ calls = <<>>
    /\ last = NoRequest
    /\ body = NoBody

\* student 3 does not exist
NextReview ==
    \E u \in Teachers, z \in AccessQuizPks, st \in 1..3 :
        ViewStudentsAnswers(u, z, st)

SpecReview == InitReview /\ [][NextReview]_vars

\* the answers of the quiz that the student selected
SelectedOf(quiz_pk, student_pk) ==
    {a \in answers :
        /\ \E q \in questions : q.pk = a.question /\ q.quiz = quiz_pk
        /\ \E s \in student_answers :
                s.answer = a.pk /\ s.student = student_pk}

(* C9: view_students_answers by the owner of the quiz fails with NotFound  *)
(* for a student id that does not exist; for a student that exists it      *)
(* succeeds with (a) a mapping that has one entry for each question of the *)
(* quiz, the question's text mapped to all answers of the question, and    *)
(* (b) a list holding exactly the answers of the quiz's questions that the *)
(* student selected, each once (so empty when the student selected none).  *)
C9_ReviewExact ==
    (last.op = "view_students_answers"
        /\ \E z \in quizzes : z.pk = last.quiz /\ z.owner = last.user) =>
       IF last.student \notin students
       THEN last.status = "NotFound"
       ELSE LET qs == {q \in questions : q.quiz = last.quiz} IN
            /\ last.status = "OK"
            /\ Cardinality(DOMAIN body.answers) = Cardinality(qs)
            /\ \A q \in qs :
                /\ q.text \in DOMAIN body.answers
                /\ Range(body.answers[q.text]) = AnswersOf(answers, q.pk)
            /\ Range(body.students_answers) =
                    SelectedOf(last.quiz, last.student)
            /\ Len(body.students_answers) =
                    Cardinality(SelectedOf(last.quiz, last.student))


-----------------------------------------------------------------------------
(* Two workers serving get_quiz_in_pdf over three quizzes *)

HereAlgebra == <<".", "/">> \o Algebra

InitPdf ==
    /\ \E n2 \in QuizNames, n3 \in {Geometry, HereAlgebra} :
        quizzes = {[pk |-> 1, name |-> Algebra, owner |-> "t1", subject |-> 1],
                   [pk |-> 2, name |-> n2, owner |-> "t2", subject |-> 1],
                   [pk |-> 3, name |-> n3, owner |-> "t1", subject |-> 2]}
    /\ questions = {[pk |-> 1, quiz |-> 1, text |-> "2+2=?"],
                    [pk |-> 2, quiz |-> 2, text |-> "3+3=?"],
                    [pk |-> 3, quiz |-> 1, text |-> "3+3=?"]}
    /\ answers = {[pk |-> 1, question |-> 1, text |-> "3", is_correct |-> FALSE],
                  [pk |-> 2, question |-> 1, text |-> "4", is_correct |-> TRUE],
                  [pk |-> 3, question |-> 2, text |-> "6", is_correct |-> TRUE],
                  [pk |-> 4, question |-> 2, text |-> "9", is_correct |-> FALSE],
                  [pk |-> 5, question |-> 3, text |-> "6", is_correct |-> TRUE]}
    /\ taken_quizzes = {}
    /\ student_answers = {}
    /\ students = {}
    /\ nextPk = [quiz |-> 4, question |-> 4, answer |-> 6]
    /\ files = <<>>
    /\ calls = [p \in Procs |-> IdleCall]
    /\ last = NoRequest
    /\ body = NoBody

NextPdf ==
    \E p \in Procs :
        \/ \E u \in Teachers, z \in AccessQuizPks : PdfStart(p, u, z)
        \/ PdfTruncate(p)
        \/ PdfWrite(p)
        \/ PdfOpen(p)
        \/ PdfRead(p)
        \/ PdfFinish(p)

SpecPdf == InitPdf /\ [][NextPdf]_vars

QuizRow(pk) == CHOOSE z \in quizzes : z.pk = pk

\* the cells of the questions before the i-th, after the title
RECURSIVE CellsBefore(_, _)
CellsBefore(qs, i) ==
    IF i = 1 THEN 0
    ELSE CellsBefore(qs, i - 1) + 3 + Len(QuestionAnswers(qs[i - 1].pk))

\* doc is the document of the quiz: its name as title, then its questions
\* in catalogue order numbered from 1, each followed by its answers
\* numbered from 1
Describes(doc, quiz) ==
    LET qs == QuizQuestions(quiz.pk)
        Heading(i) == 1 + CellsBefore(qs, i) + 2
    IN  /\ Len(doc) = 1 + CellsBefore(qs, Len(qs) + 1)
        /\ doc[1].txt = quiz.name
        /\ \A i \in DOMAIN qs :
            LET as == QuestionAnswers(qs[i].pk) IN
            /\ doc[Heading(i)].txt = <<ToString(i), ". ", qs[i].text>>
            /\ \A k \in DOMAIN as :
                doc[Heading(i) + 1 + k].txt = <<ToString(k), ". ", as[k].text>>

Answered(p) == calls[p].pc = "done" /\ calls[p].status = "OK"

(* C8: a get_quiz_in_pdf call that ran only beside calls for quizzes with  *)
(* other names answers with the document of the quiz it was asked for: the *)
(* quiz's name as title, its questions in catalogue order numbered from 1, *)
(* each followed by its own answers numbered from 1.                       *)
C8_OtherNamesDoNotInterfere ==
    \A p \in Procs :
        (/\ Answered(p)
         /\ \A z \in calls[p].peers :
                QuizRow(z).name # QuizRow(calls[p].quiz).name)
        => Describes(calls[p].resp, QuizRow(calls[p].quiz))

\* both quizzes are exported through the same file '<quiz.name>.pdf'
SameFile(a, b) == Path(a.name \o <<".pdf">>) = Path(b.name \o <<".pdf">>)

(* C10: a get_quiz_in_pdf response is not the document asked for only when *)
(* the call ran beside a call that wrote the same file '<quiz.name>.pdf',  *)
(* and it is then that call's document or the file caught empty between   *)
(* open and write; such a run exists for two teachers, each on their own   *)
(* quiz, the two quizzes having the same name.                             *)
C10_SameNameInterferes ==
    \A p \in Procs :
        (Answered(p) /\ calls[p].resp # Document(QuizRow(calls[p].quiz)))
        => \E z \in calls[p].peers :
                /\ SameFile(QuizRow(z), QuizRow(calls[p].quiz))
                /\ calls[p].resp \in {<<>>, Document(QuizRow(z))}

\* a teacher was sent the document of the other teacher's quiz
C10_Witness ==
    \E p \in Procs : \E z \in calls[p].peers :
        /\ Answered(p)
        /\ QuizRow(z).owner # calls[p].user
        /\ QuizRow(calls[p].quiz).owner = calls[p].user
        /\ QuizRow(z).name = QuizRow(calls[p].quiz).name
        /\ calls[p].resp = Document(QuizRow(z))
        /\ ~Describes(calls[p].resp, QuizRow(calls[p].quiz))


====
